---- MODULE Spec2Model ----
(***************************************************************************)
(* A model of temman.py: the recursive directory copy (copy_dir,           *)
(* __copy_dir_rec), its rename rule (change_prefix), and the commands that *)
(* drive it (new, pull, push) behind the confirmation prompt.              *)
(*                                                                         *)
(* A name is a tuple of one-character strings, a path is a tuple of names  *)
(* counted from the filesystem root "/", and the filesystem is a function  *)
(* from the paths that exist to their nodes.                               *)
(***************************************************************************)
EXTENDS Integers, Sequences, FiniteSets, TLC

VARIABLES fs, fs0, call, stack, pc, walk, op, job, cli, rn

vars == <<fs, fs0, call, stack, pc, walk, op, job, cli, rn>>

(***************************************************************************)
(* Bounds of the model.                                                    *)
(***************************************************************************)
\* Entries (files, directories, links) in a generated source tree.
MaxEntries == 3
\* Depth of a generated source tree below its root.
MaxDepth == 2
\* Iterations of the segment-collection loop the model records.
MaxWalk == 4
\* Length of the names the rename rule is applied to on its own.
MaxNameLen == 5
\* Entries in the shared subtrees of the command model.
MaxCliEntries == 2

(***************************************************************************)
(* Strings.                                                                *)
(***************************************************************************)
\* temman.py:48
DOTS_LONG == <<"D", "O", "T", "_">>
DOT == <<".">>
\* temman.py:50
SYNCHED_DIR_NAME ==
    <<"g", "l", "o", "b", "a", "l", "t", "e", "m", "p", "l", "a", "t", "e">>
\* temman.py:56
CACHE_FILENAME == <<".", "t", "e", "m", "m", "a", "n", ".", "j", "s", "o", "n">>

\* str.startswith
StartsWith(s, prefix) ==
    /\ Len(prefix) <= Len(s)
    /\ SubSeq(s, 1, Len(prefix)) = prefix

\* name[len(old_prefix):]
DropPrefix(s, n) == SubSeq(s, n + 1, Len(s))

\* A slip in the slice: the new prefix's length is cut off instead of the old one's.
change_prefix_WrongCut(old_prefix, new_prefix, name) ==
    IF StartsWith(name, old_prefix)
    THEN new_prefix \o DropPrefix(name, Len(new_prefix))
    ELSE name

\* temman.py:330-340
change_prefix(old_prefix, new_prefix, name) ==
    IF StartsWith(name, old_prefix)
    THEN new_prefix \o DropPrefix(name, Len(old_prefix))
    ELSE name

\* The else branch is lost: "." is the old prefix in both directions.
old_prefix_of_AlwaysDot(lengthen_dots) == DOT

\* temman.py:288-293
old_prefix_of(lengthen_dots) == IF lengthen_dots THEN DOT ELSE DOTS_LONG
new_prefix_of(lengthen_dots) == IF lengthen_dots THEN DOTS_LONG ELSE DOT

\* temman.py:297
Rename(lengthen_dots, name) ==
    change_prefix(old_prefix_of(lengthen_dots), new_prefix_of(lengthen_dots), name)

(***************************************************************************)
(* The filesystem.                                                         *)
(***************************************************************************)
Dir == [kind |-> "dir", val |-> <<>>]
\* A regular file and its content.
File(content) == [kind |-> "file", val |-> content]
\* A symbolic link and the path it points at.
Link(target) == [kind |-> "link", val |-> target]

Root == <<>>
Parent(p) == SubSeq(p, 1, Len(p) - 1)
Last(p) == p[Len(p)]
Prefixes(p) == {SubSeq(p, 1, i) : i \in 0..Len(p)}
\* p is q or lies below q.
IsUnder(p, q) == Len(q) <= Len(p) /\ SubSeq(p, 1, Len(q)) = q
Children(f, d) == {Last(p) : p \in {q \in DOMAIN f : Len(q) = Len(d) + 1 /\ IsUnder(q, d)}}

IsDirAt(f, p) == p \in DOMAIN f /\ f[p].kind = "dir"
IsFileAt(f, p) == p \in DOMAIN f /\ f[p].kind = "file"
IsLinkAt(f, p) == p \in DOMAIN f /\ f[p].kind = "link"

\* The path the kernel looks up: a "." segment names the directory it is in.
IsDotName(s) == s = DOT
at(p) == SelectSeq(p, LAMBDA s : ~IsDotName(s))

\* The path as the string the program sees: "/" for the root, "/a/b" below it.
RECURSIVE PathStr(_)
PathStr(p) ==
    IF Len(p) = 0 THEN <<"/">>
    ELSE IF Len(p) = 1 THEN <<"/">> \o p[1]
    ELSE PathStr(Parent(p)) \o <<"/">> \o Last(p)

\* os.path.realpath of a path whose directories are no links: the links at
\* the end of the path are followed until something else, or nothing, is met.
RECURSIVE Resolve(_, _, _)
Resolve(f, p, fuel) ==
    IF fuel = 0 \/ ~IsLinkAt(f, p) THEN p
    ELSE Resolve(f, f[p].val, fuel - 1)

realpath(f, p) == Resolve(f, p, Cardinality(DOMAIN f))

\* os.path.exists: true of whatever the path resolves to, a broken link excepted.
exists(f, p) == realpath(f, at(p)) \in DOMAIN f /\ ~IsLinkAt(f, realpath(f, at(p)))

\* os.makedirs succeeds unless the path, or one of its ancestors, is there
\* and is no directory.
makedirs_ok(f, p) ==
    /\ at(p) \notin DOMAIN f
    /\ \A q \in Prefixes(at(p)) : q \in DOMAIN f => f[q].kind = "dir"

makedirs(f, p) ==
    [q \in DOMAIN f \cup Prefixes(at(p)) |-> IF q \in DOMAIN f THEN f[q] ELSE Dir]

\* shutil.copyfile(src, dst, follow_symlinks=False) of a regular file: the
\* destination's directory must exist and the destination be no directory;
\* an existing file is overwritten.
copyfile_ok(f, dst) ==
    /\ IsDirAt(f, at(Parent(dst)))
    /\ at(dst) \in DOMAIN f => f[at(dst)].kind = "file"

copyfile(f, src, dst) ==
    [q \in DOMAIN f \cup {at(dst)} |-> IF q = at(dst) THEN File(f[src].val) ELSE f[q]]

\* os.symlink(src=target, dst=p): p must not exist, its directory must.
symlink_ok(f, p) == IsDirAt(f, at(Parent(p))) /\ at(p) \notin DOMAIN f

symlink(f, target, p) == f @@ (at(p) :> Link(target))

\* open(p, "w") and a write of the content.
write_file(f, p, content) ==
    [q \in DOMAIN f \cup {at(p)} |-> IF q = at(p) THEN File(content) ELSE f[q]]

\* shutil.rmtree
rmtree(f, p) == [q \in {r \in DOMAIN f : ~IsUnder(r, p)} |-> f[q]]

\* os.path.split of a resolved absolute path: ("/", "") at the root.
split_head(p) == IF Len(p) = 0 THEN Root ELSE Parent(p)
split_tail(p) == IF Len(p) = 0 THEN <<>> ELSE Last(p)

\* str.join("", reversed(new_subpath))
RECURSIVE join_reversed(_)
join_reversed(segs) ==
    IF Len(segs) = 0 THEN <<>>
    ELSE join_reversed(Tail(segs)) \o Head(segs)

\* os.path.join(base, s) for an s without "/": base itself (with a trailing
\* "/") when s is empty.
path_join(base, s) == IF Len(s) = 0 THEN base ELSE Append(base, s)

(***************************************************************************)
(* copy_dir and __copy_dir_rec.                                            *)
(*                                                                         *)
(* call holds the arguments that stay fixed over one copy_dir (the two     *)
(* master directories and lengthen_dots), stack the frames of              *)
(* __copy_dir_rec with the entries scandir has yet to yield, walk the      *)
(* locals of the segment-collection loop, and op the filesystem operation  *)
(* the last step made.                                                     *)
(***************************************************************************)
NoWalk == [entry |-> <<>>, new_path |-> <<>>, abs_target |-> <<>>,
           head |-> <<>>, new_subpath |-> <<>>]
NoOp == [kind |-> "none", path |-> <<>>, src |-> <<>>, err |-> ""]
Op(kind, path, src) == [kind |-> kind, path |-> path, src |-> src, err |-> ""]
Failure(kind, path, src, err) == [kind |-> kind, path |-> path, src |-> src, err |-> err]

Top == stack[Len(stack)]
Pop == SubSeq(stack, 1, Len(stack) - 1)
\* The frames with `name` taken off the entries the top frame has yet to see.
Taken(name) == [stack EXCEPT ![Len(stack)].todo = @ \ {name}]

\* temman.py:283
enter_asserts(f, input_dir) == exists(f, input_dir)

\* temman.py:283-295: the head of __copy_dir_rec, up to the directory listing.
\* err names the exception that ends it, fs is the filesystem it leaves, and
\* todo the entries to go through.
enter(f, input_dir, output_dir) ==
    IF ~enter_asserts(f, input_dir)
    THEN [err |-> "AssertionError", fs |-> f, todo |-> {}]
    ELSE IF ~exists(f, output_dir) /\ ~makedirs_ok(f, output_dir)
    THEN [err |-> "makedirs", fs |-> f, todo |-> {}]
    ELSE LET f1 == IF exists(f, output_dir) THEN f ELSE makedirs(f, output_dir)
         IN  IF ~IsDirAt(f1, input_dir)
             THEN [err |-> "NotADirectoryError", fs |-> f1, todo |-> {}]
             ELSE [err |-> "", fs |-> f1, todo |-> Children(f1, input_dir)]

\* temman.py:263-276
copy_dir ==
    /\ pc = "idle"
    /\ LET r == enter(fs, call.inp, call.out)
       IN  /\ fs' = r.fs
           /\ IF r.err = ""
              THEN /\ pc' = "run"
                   /\ stack' = <<[inp |-> call.inp, out |-> call.out, todo |-> r.todo]>>
                   /\ op' = Op("top", call.out, call.inp)
              ELSE /\ pc' = "failed"
                   /\ stack' = <<>>
                   /\ op' = Failure("top", call.out, call.inp, r.err)
    /\ UNCHANGED <<fs0, call, walk, job, cli, rn>>

\* temman.py:299-303: a directory that is no link.
RecurseDir ==
    /\ pc = "run"
    /\ \E name \in Top.todo :
         LET entry == Append(Top.inp, name)
             new_path == Append(Top.out, Rename(call.lengthen, name))
             r == enter(fs, entry, new_path)
         IN  /\ IsDirAt(fs, entry)
             /\ fs' = r.fs
             /\ IF r.err = ""
                THEN /\ pc' = "run"
                     /\ stack' = Append(Taken(name),
                                        [inp |-> entry, out |-> new_path, todo |-> r.todo])
                     /\ op' = Op("call", new_path, entry)
                ELSE /\ pc' = "failed"
                     /\ stack' = Taken(name)
                     /\ op' = Failure("call", new_path, entry, r.err)
    /\ UNCHANGED <<fs0, call, walk, job, cli, rn>>

\* temman.py:304-307: a regular file that is no link.
CopyFile ==
    /\ pc = "run"
    /\ \E name \in Top.todo :
         LET entry == Append(Top.inp, name)
             new_path == Append(Top.out, Rename(call.lengthen, name))
         IN  /\ IsFileAt(fs, entry)
             /\ stack' = Taken(name)
             /\ IF copyfile_ok(fs, new_path)
                THEN /\ fs' = copyfile(fs, entry, new_path)
                     /\ pc' = "run"
                     /\ op' = Op("copyfile", new_path, entry)
                ELSE /\ fs' = fs
                     /\ pc' = "failed"
                     /\ op' = Failure("error", new_path, entry, "copyfile")
    /\ UNCHANGED <<fs0, call, walk, job, cli, rn>>

\* temman.py:310: abs_target.startswith(os.path.realpath(inp_master_dir))
is_internal(abs_target, master) == StartsWith(PathStr(abs_target), PathStr(master))

\* temman.py:327-328
MakeLink(entry, new_path, new_target) ==
    IF symlink_ok(fs, new_path)
    THEN /\ fs' = symlink(fs, new_target, new_path)
         /\ pc' = "run"
         /\ op' = Op("symlink", new_path, entry)
    ELSE /\ fs' = fs
         /\ pc' = "failed"
         /\ op' = Failure("error", new_path, entry, "symlink")

\* temman.py:308-314: a link whose resolved target starts with the master
\* directory's path; the loop over its segments is about to run.
LinkInternal ==
    /\ pc = "run"
    /\ \E name \in Top.todo :
         LET entry == Append(Top.inp, name)
             new_path == Append(Top.out, Rename(call.lengthen, name))
             abs_target == realpath(fs, entry)
         IN  /\ IsLinkAt(fs, entry)
             /\ is_internal(abs_target, realpath(fs, call.inp))
             /\ stack' = Taken(name)
             /\ walk' = [entry |-> entry, new_path |-> new_path,
                         abs_target |-> abs_target, head |-> abs_target,
                         new_subpath |-> <<>>]
             /\ pc' = "walk"
             /\ op' = NoOp
    /\ UNCHANGED <<fs, fs0, call, job, cli, rn>>

\* temman.py:308-310, 321-328: a link whose resolved target does not.
LinkExternal ==
    /\ pc = "run"
    /\ \E name \in Top.todo :
         LET entry == Append(Top.inp, name)
             new_path == Append(Top.out, Rename(call.lengthen, name))
             abs_target == realpath(fs, entry)
         IN  /\ IsLinkAt(fs, entry)
             /\ ~is_internal(abs_target, realpath(fs, call.inp))
             /\ stack' = Taken(name)
             /\ MakeLink(entry, new_path, abs_target)
    /\ UNCHANGED <<fs0, call, walk, job, cli, rn>>

\* temman.py:315-318: one turn of the loop. The list grows with every turn;
\* the model records its first MaxWalk segments.
WalkStep ==
    /\ pc = "walk"
    /\ walk.head # realpath(fs, call.inp)
    /\ walk' = [walk EXCEPT
                  !.head = split_head(walk.head),
                  !.new_subpath =
                      IF Len(@) < MaxWalk
                      THEN Append(@, Rename(call.lengthen, split_tail(walk.head)))
                      ELSE @]
    /\ op' = NoOp
    /\ UNCHANGED <<fs, fs0, call, stack, pc, job, cli, rn>>

\* temman.py:319-320
new_target(out_master, new_subpath) == path_join(out_master, join_reversed(new_subpath))

\* temman.py:315, 319-320, 327-328: the loop is over and the link is made.
WalkDone ==
    /\ pc = "walk"
    /\ walk.head = realpath(fs, call.inp)
    /\ MakeLink(walk.entry, walk.new_path, new_target(call.out, walk.new_subpath))
    /\ walk' = NoWalk
    /\ UNCHANGED <<fs0, call, stack, job, cli, rn>>

\* temman.py:295-296: the listing is exhausted and __copy_dir_rec returns.
Return ==
    /\ pc = "run"
    /\ Top.todo = {}
    /\ stack' = Pop
    /\ pc' = IF Len(stack) = 1 THEN "done" ELSE "run"
    /\ op' = NoOp
    /\ UNCHANGED <<fs, fs0, call, walk, job, cli, rn>>

Engine ==
    \/ copy_dir
    \/ RecurseDir
    \/ CopyFile
    \/ LinkInternal
    \/ LinkExternal
    \/ WalkStep
    \/ WalkDone
    \/ Return

(***************************************************************************)
(* The filesystems a copy starts from.                                     *)
(***************************************************************************)
\* The names of the files and directories of a source tree, and of its links.
EntryNames == {<<".", "a">>, <<"D", "O", "T", "_", "a">>, DOTS_LONG, <<"b">>}
LinkName == <<"l">>

SrcRoot == <<<<"s">>>>
DstRoot == <<<<"d">>, <<"o">>>>
BackRoot == <<<<"r">>>>
\* A file outside the source tree, and one in a directory beside the source
\* tree whose name begins with the source tree's.
Outside == <<<<"e">>, <<"x">>>>
Beside == <<<<"s", "2">>, <<"x">>>>

Base ==
    (Root :> Dir) @@ (Parent(Outside) :> Dir) @@ (Outside :> File(Outside))
    @@ (Parent(Beside) :> Dir) @@ (Beside :> File(Beside))

\* What one more entry makes of the tree below root: a file, a directory, or
\* a link to the root, to an entry of the tree, or to a file outside it. A
\* file's content is the path it was created at: no two files are alike.
Grown(f, root, depth) ==
    LET dirs == {d \in DOMAIN f : IsUnder(d, root) /\ f[d].kind = "dir"
                                   /\ Len(d) - Len(root) < depth}
        targets == {q \in DOMAIN f : IsUnder(q, root)} \cup {Outside, Beside}
        free(d) == {nm \in EntryNames \cup {LinkName} : Append(d, nm) \notin DOMAIN f}
    IN  UNION {UNION {IF nm = LinkName
                      THEN {f @@ (Append(d, nm) :> Link(t)) : t \in targets}
                      ELSE {f @@ (Append(d, nm) :> Dir),
                            f @@ (Append(d, nm) :> File(Append(d, nm)))}
                      : nm \in free(d)}
               : d \in dirs}

\* The source is missing, is a regular file, or is a directory.
Sources(f, src) == {f, f @@ (src :> File(src)), f @@ (src :> Dir)}

HasLinks(f, root) == \E p \in DOMAIN f : IsUnder(p, root) /\ f[p].kind = "link"

NoCli == [cmd |-> "none", pc |-> "none", user_inp |-> <<>>]
NoRn == [name |-> <<>>, lengthen |-> FALSE, once |-> <<>>, twice |-> <<>>, step |-> 0]
NoCall == [inp |-> <<>>, out |-> <<>>, lengthen |-> FALSE]

Init ==
    /\ fs \in Sources(Base, SrcRoot)
    /\ fs0 = fs
    /\ call \in {[inp |-> SrcRoot, out |-> DstRoot, lengthen |-> l] : l \in BOOLEAN}
    /\ stack = <<>>
    /\ pc = "idle"
    /\ walk = NoWalk
    /\ op = NoOp
    /\ job = "first"
    /\ cli = NoCli
    /\ rn = NoRn

\* Before the command runs, the tree it will copy from is filled, an entry
\* at a time.
Grow ==
    /\ \/ job = "first" /\ pc = "idle"
       \/ job = "cli" /\ cli.pc = "start"
    /\ Cardinality({p \in DOMAIN fs : IsUnder(p, call.inp) /\ p # call.inp})
          < (IF job = "cli" THEN MaxCliEntries ELSE MaxEntries)
    /\ fs' \in Grown(fs, call.inp, MaxDepth)
    /\ fs0' = fs'
    /\ UNCHANGED <<call, stack, pc, walk, op, job, cli, rn>>

\* The copy is copied back with the other rename rule, into a fresh directory.
RoundTrip ==
    /\ pc = "done"
    /\ job = "first"
    /\ ~HasLinks(fs0, SrcRoot)
    /\ job' = "back"
    /\ call' = [inp |-> call.out, out |-> BackRoot, lengthen |-> ~call.lengthen]
    /\ pc' = "idle"
    /\ op' = NoOp
    /\ UNCHANGED <<fs, fs0, stack, walk, cli, rn>>

Next == Grow \/ Engine \/ RoundTrip

Spec == Init /\ [][Next]_vars

(***************************************************************************)
(* Properties of copy_dir.                                                 *)
(***************************************************************************)
\* The entries below root, and an entry's path relative to root.
Entries(f, root) == {p \in DOMAIN f : IsUnder(p, root) /\ p # root}
Rel(p, root) == SubSeq(p, Len(root) + 1, Len(p))
\* Every segment renamed on its own.
Renamed(lengthen_dots, rel) == [i \in 1..Len(rel) |-> Rename(lengthen_dots, rel[i])]
\* Where the entry p of the tree at src belongs in the tree at dst: the path
\* as it is written, and the entry that path names.
Image(p, src, dst, lengthen_dots) == dst \o Renamed(lengthen_dots, Rel(p, src))
ImageAt(p, src, dst, lengthen_dots) == at(Image(p, src, dst, lengthen_dots))
\* The direction of the first copy, also while the copy back runs.
FirstLengthen == IF job = "first" THEN call.lengthen ELSE ~call.lengthen

SameNode(f, p, q) ==
    /\ q \in DOMAIN f
    /\ f[q].kind = f[p].kind
    /\ f[p].kind = "file" => f[q].val = f[p].val

\* The tree at dst is the tree at src with every name renamed, and no more.
IsImage(f, src, dst, lengthen_dots) ==
    /\ \A p \in Entries(f, src) : SameNode(f, p, ImageAt(p, src, dst, lengthen_dots))
    /\ \A p1, p2 \in Entries(f, src) :
          p1 # p2 => ImageAt(p1, src, dst, lengthen_dots) # ImageAt(p2, src, dst, lengthen_dots)
    /\ \A q \in Entries(f, dst) :
          \E p \in Entries(f, src) : q = ImageAt(p, src, dst, lengthen_dots)

FirstDone == job = "first" /\ pc = "done"

\* C1: once copy_dir has completed on a source tree without links and an
\* absent destination, the destination holds every source entry at its
\* renamed path with the same kind and content, distinct entries at distinct
\* paths, and nothing else.
C1_Image ==
    (FirstDone /\ ~HasLinks(fs0, SrcRoot)) => IsImage(fs, SrcRoot, DstRoot, call.lengthen)

\* The target is the master directory or lies below it.
is_internal_ByPath(abs_target, master) == IsUnder(abs_target, master)

\* The links of the source tree whose resolved target is the source root or
\* lies below it, and the others.
InternalLinks(f, root) ==
    {p \in Entries(f, root) : f[p].kind = "link" /\ is_internal_ByPath(realpath(f, p), root)}
ExternalLinks(f, root) ==
    {p \in Entries(f, root) : f[p].kind = "link" /\ ~is_internal_ByPath(realpath(f, p), root)}

\* C2: a link of the source tree that resolves to the source root or below
\* it is copied as a link, at its renamed path, to the destination root
\* followed by the renamed segments of the target, one segment each.
C2_InternalRetargeted ==
    FirstDone =>
        \A p \in InternalLinks(fs, SrcRoot) :
            LET q == ImageAt(p, SrcRoot, DstRoot, call.lengthen)
            IN  /\ IsLinkAt(fs, q)
                /\ fs[q].val = Image(realpath(fs, p), SrcRoot, DstRoot, call.lengthen)

\* C3: a link of the source tree that resolves to neither the source root
\* nor a path below it is taken for external (the segment loop is not
\* entered for it) and copied as a link to the resolved target, unchanged.
C3_ExternalVerbatim ==
    /\ pc = "walk" => is_internal_ByPath(walk.abs_target, realpath(fs, call.inp))
    /\ FirstDone =>
          \A p \in ExternalLinks(fs, SrcRoot) :
              LET q == ImageAt(p, SrcRoot, DstRoot, call.lengthen)
              IN  IsLinkAt(fs, q) /\ fs[q].val = realpath(fs, p)

\* The trees at a and b have the same entries under the same names, of the
\* same kind and content.
SameTree(f, a, b) ==
    /\ \A p \in Entries(f, a) : SameNode(f, p, b \o Rel(p, a))
    /\ \A q \in Entries(f, b) : (a \o Rel(q, b)) \in DOMAIN f

LinkFreeTree == IsDirAt(fs0, SrcRoot) /\ ~HasLinks(fs0, SrcRoot)

\* C4: a source tree without links, copied and copied back with the other
\* rename rule into fresh directories, comes back with the same shape, file
\* content and names.
C4_RoundTrip ==
    (LinkFreeTree /\ job = "back" /\ pc = "done") => SameTree(fs, SrcRoot, BackRoot)

\* No name of the tree begins with the prefix the first copy writes, and
\* none is renamed to ".".
Invertible(f, root, lengthen_dots) ==
    \A p \in Entries(f, root) :
        /\ ~StartsWith(Last(p), new_prefix_of(lengthen_dots))
        /\ ~IsDotName(Rename(lengthen_dots, Last(p)))

\* C4, amended: when no name of the tree begins with the first copy's new
\* prefix and none is renamed to ".", neither copy fails and the round trip
\* restores the tree.
C4_RoundTripInvertible ==
    (LinkFreeTree /\ Invertible(fs0, SrcRoot, FirstLengthen)) =>
        /\ pc # "failed"
        /\ (job = "back" /\ pc = "done") => SameTree(fs, SrcRoot, BackRoot)

\* A tree with a renamed file in a renamed directory has made the round trip.
C4_Witness ==
    /\ LinkFreeTree
    /\ Invertible(fs0, SrcRoot, FirstLengthen)
    /\ job = "back"
    /\ pc = "done"
    /\ \E p \in Entries(fs0, SrcRoot) :
          /\ Len(p) = Len(SrcRoot) + 2
          /\ fs0[p].kind = "file"
          /\ Rename(FirstLengthen, Last(p)) # Last(p)
          /\ Rename(FirstLengthen, Last(Parent(p))) # Last(Parent(p))

\* C6: when the source is missing or is no directory, copy_dir fails at once
\* and the filesystem stays as it was: no destination directory is made.
C6_NoSourceNoWork ==
    (job = "first" /\ ~IsDirAt(fs0, SrcRoot)) =>
        /\ pc \in {"idle", "failed"}
        /\ fs = fs0

\* C8: a file is copied to, a link made at, and a recursive call started for
\* a path only when the directory of that path is there already; a call for
\* a directory that is there already does not fail.
C8_ParentFirst ==
    [][/\ op'.kind \in {"copyfile", "symlink", "call"} => IsDirAt(fs, at(Parent(op'.path)))
       /\ (op'.kind = "call" /\ IsDirAt(fs, at(op'.path))) => op'.err = ""]_vars

\* C9: copy_dir terminates whatever the links of an acyclic source tree
\* point at: no frame of the traversal is inside a link, and the segment
\* loop ends, having collected at most one segment per segment of the
\* resolved target.
C9_Terminates ==
    /\ \A i \in 1..Len(stack) : ~IsLinkAt(fs, stack[i].inp)
    /\ pc = "walk" => Len(walk.new_subpath) <= Len(walk.abs_target)

(***************************************************************************)
(* change_prefix on its own: a name is renamed by one rule and the result  *)
(* by the other.                                                           *)
(***************************************************************************)
Alphabet == {".", "D", "O", "T", "_", "a"}
Names == UNION {[1..n -> Alphabet] : n \in 0..MaxNameLen}

InitRename ==
    /\ rn \in {[NoRn EXCEPT !.name = n] : n \in Names}
    /\ fs = Base
    /\ fs0 = Base
    /\ call = NoCall
    /\ stack = <<>>
    /\ pc = "off"
    /\ walk = NoWalk
    /\ op = NoOp
    /\ job = "rename"
    /\ cli = NoCli

\* temman.py:297: the name is renamed by the rule of one direction.
RenameOnce ==
    /\ rn.step = 0
    /\ \E l \in BOOLEAN :
         rn' = [rn EXCEPT !.lengthen = l,
                          !.once = change_prefix(old_prefix_of(l), new_prefix_of(l), rn.name),
                          !.step = 1]
    /\ UNCHANGED <<fs, fs0, call, stack, pc, walk, op, job, cli>>

\* temman.py:297: the result is renamed by the rule of the other direction.
RenameBack ==
    /\ rn.step = 1
    /\ rn' = [rn EXCEPT !.twice = change_prefix(old_prefix_of(~rn.lengthen),
                                                new_prefix_of(~rn.lengthen), rn.once),
                        !.step = 2]
    /\ UNCHANGED <<fs, fs0, call, stack, pc, walk, op, job, cli>>

NextRename == RenameOnce \/ RenameBack

SpecRename == InitRename /\ [][NextRename]_vars

\* C5: a name that starts with the old prefix of a rule comes back unchanged
\* from that rule followed by the other one, and a name that does not start
\* with the old prefix is returned unchanged by the rule.
C5_Inverse ==
    /\ (rn.step = 2 /\ StartsWith(rn.name, old_prefix_of(rn.lengthen))) => rn.twice = rn.name
    /\ (rn.step >= 1 /\ ~StartsWith(rn.name, old_prefix_of(rn.lengthen))) => rn.once = rn.name

\* "DOT_a" has been shortened to ".a" and lengthened back.
C5_Witness ==
    /\ rn.step = 2
    /\ ~rn.lengthen
    /\ rn.name = DOTS_LONG \o <<"a">>
    /\ rn.once = <<".", "a">>
    /\ rn.twice = rn.name

(***************************************************************************)
(* The commands new, pull and push.                                        *)
(*                                                                         *)
(* cli holds the command, the place the command has reached, and the       *)
(* user_inp of get_confirmation. The template is at /t, the directory      *)
(* given with -d at /p, and the new project is named "n".                  *)
(***************************************************************************)
TemplateDir == <<<<"t">>>>
ProjectDir == <<<<"p">>>>
NewProjDir == Append(ProjectDir, <<"n">>)

\* temman.py:194-201
source_dir(cmd) ==
    IF cmd = "new" THEN TemplateDir
    ELSE IF cmd = "push" THEN Append(ProjectDir, SYNCHED_DIR_NAME)
    ELSE Append(TemplateDir, SYNCHED_DIR_NAME)
target_dir(cmd) ==
    IF cmd = "new" THEN NewProjDir
    ELSE IF cmd = "push" THEN Append(TemplateDir, SYNCHED_DIR_NAME)
    ELSE Append(ProjectDir, SYNCHED_DIR_NAME)
\* temman.py:158, 197, 201
spell_out_dots(cmd) == cmd = "push"

\* The directory in which the cache file is looked for, or written.
cache_path(cmd) ==
    Append(IF cmd = "new" THEN NewProjDir ELSE ProjectDir, CACHE_FILENAME)

\* What the user may type at the prompt.
Inputs == {<<"y">>, <<"Y", "E", "S">>, <<"n">>, <<"N", "o">>, <<>>, <<"q">>,
           <<"y", "e", "s", "!">>}

\* str.lower
lower_char(c) ==
    CASE c = "Y" -> "y" [] c = "E" -> "e" [] c = "S" -> "s"
      [] c = "N" -> "n" [] c = "O" -> "o" [] c = "Q" -> "q"
      [] OTHER -> c
lower(str) == [i \in 1..Len(str) |-> lower_char(str[i])]

\* Whatever is not a no is taken for a yes.
is_yes_UnlessNo(user_inp) == user_inp \notin {<<"n">>, <<"n", "o">>}

\* temman.py:256
is_yes(user_inp) == user_inp \in {<<"y">>, <<"y", "e", "s">>}
\* temman.py:258
is_no(user_inp) == user_inp \in {<<"n">>, <<"n", "o">>}

\* The filesystems a command starts in: the template and the -d directory
\* are there; the source of the copy is missing, a regular file or a
\* directory (the template itself, for new, is a directory); for pull and
\* push the destination's shared subtree and the project's cache file are
\* there or not.
CliWorlds(cmd) ==
    LET both == Base @@ (TemplateDir :> Dir) @@ (ProjectDir :> Dir)
        old == Append(target_dir(cmd), <<"o", "l", "d">>)
        withTarget(f) == {f, f @@ (target_dir(cmd) :> Dir) @@ (old :> File(old))}
        withCache(f) == {f, f @@ (cache_path(cmd) :> File(cache_path(cmd)))}
    IN  IF cmd = "new" THEN {both}
        ELSE UNION {UNION {withCache(g) : g \in withTarget(f)}
                    : f \in Sources(both, source_dir(cmd))}

InitCli ==
    /\ cli \in {[cmd |-> c, pc |-> "start", user_inp |-> <<>>] : c \in {"new", "pull", "push"}}
    /\ fs \in CliWorlds(cli.cmd)
    /\ fs0 = fs
    /\ call = [inp |-> source_dir(cli.cmd), out |-> target_dir(cli.cmd),
               lengthen |-> spell_out_dots(cli.cmd)]
    /\ stack = <<>>
    /\ pc = "off"
    /\ walk = NoWalk
    /\ op = NoOp
    /\ job = "cli"
    /\ rn = NoRn

\* temman.py:143-154, 175-204: the command up to its prompt. pull and push
\* load the cache first, and stop when the project has none.
exec_subcommand ==
    /\ cli.pc = "start"
    /\ cli' = [cli EXCEPT !.pc =
                  IF cli.cmd # "new" /\ ~exists(fs, cache_path(cli.cmd))
                  THEN "nocache" ELSE "prompt"]
    /\ UNCHANGED <<fs, fs0, call, stack, pc, walk, op, job, rn>>

\* temman.py:243-261: one turn of the prompt loop.
get_confirmation ==
    /\ cli.pc = "prompt"
    /\ \E inp \in Inputs :
         LET user_inp == lower(inp)
         IN  cli' = [cli EXCEPT !.user_inp = user_inp,
                                !.pc = IF is_yes(user_inp) THEN "confirmed"
                                       ELSE IF is_no(user_inp) THEN "declined"
                                       ELSE "prompt"]
    /\ UNCHANGED <<fs, fs0, call, stack, pc, walk, op, job, rn>>

\* temman.py:157-158, 206-212: the destination's shared subtree is removed
\* when there is one (pull, push), and copy_dir is called.
remove_target ==
    /\ cli.pc = "confirmed"
    /\ fs' = IF cli.cmd # "new" /\ exists(fs, target_dir(cli.cmd))
             THEN rmtree(fs, target_dir(cli.cmd))
             ELSE fs
    /\ cli' = [cli EXCEPT !.pc = "copy"]
    /\ pc' = "idle"
    /\ UNCHANGED <<fs0, call, stack, walk, op, job, rn>>

\* temman.py:160-162, 214-228: new writes the cache file into the project;
\* pull and push are over when copy_dir returns.
create_json_cache ==
    /\ cli.pc = "copy"
    /\ pc = "done"
    /\ fs' = IF cli.cmd = "new"
             THEN write_file(fs, cache_path(cli.cmd), TemplateDir)
             ELSE fs
    /\ cli' = [cli EXCEPT !.pc = "exit"]
    /\ pc' = "off"
    /\ op' = NoOp
    /\ UNCHANGED <<fs0, call, stack, walk, job, rn>>

NextCli ==
    \/ Grow
    \/ exec_subcommand
    \/ get_confirmation
    \/ remove_target
    \/ Engine
    \/ create_json_cache

SpecCli == InitCli /\ [][NextCli]_vars

\* The last answer read at the prompt, case aside, was a yes, or a no.
AnsweredYes == cli.user_inp \in {<<"y">>, <<"y", "e", "s">>}
AnsweredNo == cli.user_inp \in {<<"n">>, <<"n", "o">>}

\* C7: in new, pull and push nothing on the filesystem changes and
\* copy_dir is not entered before the user has answered yes; after a no the
\* command has ended with the filesystem as it was; after any other answer
\* the prompt is up again.
C7_ConfirmFirst ==
    cli.cmd # "none" =>
        /\ (fs # fs0 \/ pc # "off" \/ cli.pc \in {"confirmed", "copy", "exit"}) => AnsweredYes
        /\ cli.pc = "declined" <=> AnsweredNo
        /\ cli.pc = "declined" => fs = fs0
        /\ (cli.pc \in {"start", "nocache"} \/ cli.user_inp = <<>>) => fs = fs0
        /\ (~AnsweredYes /\ ~AnsweredNo) => cli.pc \in {"start", "nocache", "prompt"}

\* After "YES" a pull has removed the old shared subtree of the project and
\* copied the template's in its place.
C7_Witness ==
    /\ cli.cmd = "pull"
    /\ cli.pc = "exit"
    /\ cli.user_inp = <<"y", "e", "s">>
    /\ Append(target_dir("pull"), <<"o", "l", "d">>) \in DOMAIN fs0
    /\ Append(target_dir("pull"), <<"o", "l", "d">>) \notin DOMAIN fs
    /\ Entries(fs, target_dir("pull")) # {}

\* A pull or push that the user confirmed has ended.
Ended == cli.cmd \in {"pull", "push"} /\ (cli.pc = "exit" \/ pc = "failed")

\* C10: pull and push remove the destination's shared subtree only when the
\* source's shared subtree is there to be copied, and when a confirmed run
\* has ended, a destination that had a shared subtree has one still.
C10_NoRemovalWithoutCopy ==
    (cli.cmd \in {"pull", "push"} /\ exists(fs0, target_dir(cli.cmd))) =>
        /\ fs # fs0 => IsDirAt(fs0, source_dir(cli.cmd))
        /\ Ended => exists(fs, target_dir(cli.cmd))

====
